---- MODULE Spec2Model ----
(***************************************************************************)
(* A model of libafl_fuzzilli: the driver-facing LibAflObject (add_input,  *)
(* suggest_next_input and the two mutexes it takes) and the bit-packed     *)
(* FuzzilliCoverageObserver.                                               *)
(*                                                                         *)
(* Spec     the LibAflObject called from several threads.                   *)
(* SpecMap  one FuzzilliCoverageObserver built from an arbitrary buffer.    *)
(* SpecSeq  the LibAflObject called from one thread, with every exported   *)
(*          method and a longer run of calls.                               *)
(***************************************************************************)
EXTENDS Integers, Sequences, FiniteSets, TLC

(***************************************************************************)
(* Bounds of the model.                                                    *)
(***************************************************************************)
NumThreads == 2
MaxCalls == 3
MaxSkips == 1
MaxPayloadLen == 2
MaxBufLen == 6
MaxOps == 2
MaxInputLen == 3
MaxSeqCalls == 5

VARIABLES
    variant,     \* which adapter source the object is built from
    kind,        \* SchedulerEnum variant held by self.scheduler
    corpus,      \* state.corpus(): payloads, CorpusId i at position i + 1
    current,     \* state.corpus().current(): last scheduled id, or NoId
    probMeta,    \* ProbabilityMetadata in the state's metadata map
    queue,       \* QueueScheduler counters
    onAddLog,    \* ids for which Scheduler::on_add has been invoked
    pc,          \* per thread: position inside add_input / suggest_next_input
    held,        \* per thread: MutexGuards alive, in order of acquisition
    poisoned,    \* per mutex: poison flag
    arg,         \* per thread: input_data of the running add_input
    idx,         \* per thread: local idx of the running add_input
    result,      \* per thread: outcome of the last call that ended
    calls,       \* number of calls started so far
    budget,      \* number of calls the run may start
    schedLog,    \* what each successful scheduler.next() returned, in order
    inputBuf,    \* the Vec<u8> handed to FuzzilliCoverageObserver::new
    obsState,    \* "unbuilt", "built" or "rejected" (new panicked)
    map,         \* FuzzilliCoverageObserver.map
    num_edges,   \* FuzzilliCoverageObserver.num_edges
    lastOp,      \* the last observer operation and what it returned
    nOps         \* number of observer operations applied so far

driverVars == <<variant, kind, corpus, current, probMeta, queue, onAddLog,
                pc, held, poisoned, arg, idx, result, calls, budget,
                schedLog>>
mapVars == <<inputBuf, obsState, map, num_edges, lastOp, nOps>>
vars == <<variant, kind, corpus, current, probMeta, queue, onAddLog,
          pc, held, poisoned, arg, idx, result, calls, budget, schedLog,
          inputBuf, obsState, map, num_edges, lastOp, nOps>>

(***************************************************************************)
(* Bytes and bits.                                                         *)
(***************************************************************************)
Pow2(k) == IF k = 0 THEN 1 ELSE IF k = 1 THEN 2 ELSE IF k = 2 THEN 4
           ELSE IF k = 3 THEN 8 ELSE IF k = 4 THEN 16 ELSE IF k = 5 THEN 32
           ELSE IF k = 6 THEN 64 ELSE 128

\* (byte >> bit_idx) & 1
ShrAnd1(byte, bit_idx) == (byte \div Pow2(bit_idx)) % 2

\* byte | (1 << bit_idx)
OrBit(byte, bit_idx) ==
    IF ShrAnd1(byte, bit_idx) = 1 THEN byte ELSE byte + Pow2(bit_idx)

\* byte & !(1 << bit_idx)
AndNotBit(byte, bit_idx) ==
    IF ShrAnd1(byte, bit_idx) = 1 THEN byte - Pow2(bit_idx) ELSE byte

\* u8::count_ones
count_ones(byte) ==
    ShrAnd1(byte, 0) + ShrAnd1(byte, 1) + ShrAnd1(byte, 2) + ShrAnd1(byte, 3)
    + ShrAnd1(byte, 4) + ShrAnd1(byte, 5) + ShrAnd1(byte, 6) + ShrAnd1(byte, 7)

\* u32::from_le_bytes(map[0..4])
from_le_bytes(m) == m[1] + 256 * m[2] + 65536 * m[3] + 16777216 * m[4]

(***************************************************************************)
(* FuzzilliCoverageObserver.                                               *)
(***************************************************************************)
\* FuzzilliCoverageObserver::new: TRUE when neither panic! is hit.
NewAccepts(m) ==
    /\ ~(Len(m) < 4)
    /\ ~(Len(m) < 4 + (from_le_bytes(m) \div 8))

\* MapObserver::get: ok is FALSE when indexing map[byte_idx] panics (out of
\* bounds); bit is the value returned otherwise.
get(m, ne, i) ==
    IF i >= ne THEN [ok |-> TRUE, bit |-> 0]
    ELSE LET byte_idx == 4 + (i \div 8)
             bit_idx == i % 8
         IN IF byte_idx + 1 > Len(m) THEN [ok |-> FALSE, bit |-> 0]
            ELSE [ok |-> TRUE, bit |-> ShrAnd1(m[byte_idx + 1], bit_idx)]

\* MapObserver::set: the map afterwards; ok is FALSE (map untouched) when
\* indexing map[byte_idx] panics.
set_Off(m, ne, i, value) ==
    IF i <= ne
    THEN LET byte_idx == 4 + (i \div 8)
             bit_idx == i % 8
         IN IF byte_idx + 1 > Len(m) THEN [ok |-> FALSE, map |-> m]
            ELSE IF value # 0
                 THEN [ok |-> TRUE,
                       map |-> [m EXCEPT ![byte_idx + 1] = OrBit(@, bit_idx)]]
                 ELSE [ok |-> TRUE,
                       map |-> [m EXCEPT ![byte_idx + 1] = AndNotBit(@, bit_idx)]]
    ELSE [ok |-> TRUE, map |-> m]

set(m, ne, i, value) ==
    IF i < ne
    THEN LET byte_idx == 4 + (i \div 8)
             bit_idx == i % 8
         IN IF byte_idx + 1 > Len(m) THEN [ok |-> FALSE, map |-> m]
            ELSE IF value # 0
                 THEN [ok |-> TRUE,
                       map |-> [m EXCEPT ![byte_idx + 1] = OrBit(@, bit_idx)]]
                 ELSE [ok |-> TRUE,
                       map |-> [m EXCEPT ![byte_idx + 1] = AndNotBit(@, bit_idx)]]
    ELSE [ok |-> TRUE, map |-> m]

\* self.map.iter().map(|&byte| byte.count_ones() as u64).sum()
RECURSIVE SumOnes(_, _, _)
SumOnes(m, lo, hi) ==
    IF lo > hi THEN 0 ELSE count_ones(m[lo]) + SumOnes(m, lo + 1, hi)

count_bytes(m) == SumOnes(m, 1, Len(m))

\* self.map.fill(0)
reset_map(m) == [i \in 1..Len(m) |-> 0]

\* MapObserver::to_vec.  lib.rs and test_shmem.rs push get(idx) for every idx
\* in 0..num_edges (a panic of get is a panic of to_vec); pss.rs returns
\* self.map.clone().
to_vec(v, m, ne) ==
    IF v = "pss" THEN [ok |-> TRUE, vec |-> m]
    ELSE IF \E i \in 0..(ne - 1) : ~get(m, ne, i).ok
    THEN [ok |-> FALSE, vec |-> <<>>]
    ELSE [ok |-> TRUE, vec |-> [k \in 1..ne |-> get(m, ne, k - 1).bit]]

(***************************************************************************)
(* UniformDistribution::compute.  Scores are in hundredths: 0.25 is 25,    *)
(* 1.0 is 100, 39.9 is 3990.  has_observer: the state's metadata map holds *)
(* a FuzzilliCoverageObserver; has_input: testcase.input() is Some.        *)
(***************************************************************************)
\* lib.rs (test_shmem.rs has the same text)
compute(has_observer, has_input, coverage_count, input_length) ==
    IF ~has_observer THEN 25
    ELSE IF ~has_input THEN 25
    ELSE LET score == (coverage_count * 1000) - (input_length * 10)
         IN IF score > 100 THEN score ELSE 100

\* pss.rs: a missing observer is Err(key_not_found) (ok is FALSE), a missing
\* input counts as length 0.
compute_pss(has_observer, has_input, coverage_count, input_length) ==
    IF ~has_observer THEN [ok |-> FALSE, score |-> 0]
    ELSE LET len == IF has_input THEN input_length ELSE 0
             score == (coverage_count * 1000) - (len * 10)
         IN [ok |-> TRUE, score |-> IF score > 100 THEN score ELSE 100]

\* compute as Result<f64, Error>, for the source v.
compute_result(v, has_observer, has_input, coverage_count, input_length) ==
    IF v = "pss"
    THEN compute_pss(has_observer, has_input, coverage_count, input_length)
    ELSE [ok |-> TRUE,
          score |-> compute(has_observer, has_input, coverage_count,
                            input_length)]

(***************************************************************************)
(* Inputs: the buffers a caller may hand to FuzzilliCoverageObserver::new  *)
(* (a little-endian edge count in bytes 0..3, then data bytes), and the    *)
(* edge indices and bit values it may pass to get and set.                 *)
(***************************************************************************)
HeaderLow == {0, 1, 8, 9}
HeaderHigh == {0, 1}
DataBytes == {0, 5, 133}
EdgeIndices == {0, 1, 2, 7, 8, 9}
BitValues == {0, 1}
InputLens == 0..MaxInputLen

BuffersOfLen(n) ==
    { [i \in 1..n |-> IF i = 1 THEN lo
                      ELSE IF i = 2 THEN hi
                      ELSE IF i <= 4 THEN 0
                      ELSE d[i - 4]] :
        lo \in HeaderLow, hi \in HeaderHigh, d \in [1..(n - 4) -> DataBytes] }

Buffers == UNION { BuffersOfLen(n) : n \in 0..MaxBufLen }

\* The buffer of the spec's concrete scenario: num_edges = 8, bits 0 and 2 set.
SampleBuffer == <<8, 0, 0, 0, 5>>

\* What lastOp records: the operation, its arguments (idx, value), whether
\* it returned (ok) or panicked, what it returned (ret, vec) and the map
\* before it (pre).  For compute, idx is the input length and has_observer,
\* has_input say what the state and the testcase hold.
OpRecord(op, i, value, ok, ret, pre) ==
    [op |-> op, idx |-> i, value |-> value, ok |-> ok, ret |-> ret,
     pre |-> pre, vec |-> <<>>, has_observer |-> TRUE, has_input |-> TRUE]

NoOp == OpRecord("none", 0, 0, TRUE, 0, <<>>)

\* FuzzilliCoverageObserver::new(name, map)
New ==
    /\ obsState = "unbuilt"
    /\ IF NewAccepts(inputBuf)
       THEN /\ obsState' = "built"
            /\ map' = inputBuf
            /\ num_edges' = from_le_bytes(inputBuf)
       ELSE /\ obsState' = "rejected"
            /\ UNCHANGED <<map, num_edges>>
    /\ UNCHANGED <<inputBuf, lastOp, nOps>>
    /\ UNCHANGED driverVars

\* observer.get(i)
Get(i) ==
    /\ obsState = "built"
    /\ nOps < MaxOps
    /\ LET r == get(map, num_edges, i)
       IN lastOp' = OpRecord("get", i, 0, r.ok, r.bit, map)
    /\ nOps' = nOps + 1
    /\ UNCHANGED <<inputBuf, obsState, map, num_edges>>
    /\ UNCHANGED driverVars

\* observer.set(i, value)
Set(i, value) ==
    /\ obsState = "built"
    /\ nOps < MaxOps
    /\ LET r == set(map, num_edges, i, value)
       IN /\ map' = r.map
          /\ lastOp' = OpRecord("set", i, value, r.ok, 0, map)
    /\ nOps' = nOps + 1
    /\ UNCHANGED <<inputBuf, obsState, num_edges>>
    /\ UNCHANGED driverVars

\* observer.count_bytes()
CountBytes ==
    /\ obsState = "built"
    /\ nOps < MaxOps
    /\ lastOp' = OpRecord("count_bytes", 0, 0, TRUE, count_bytes(map), map)
    /\ nOps' = nOps + 1
    /\ UNCHANGED <<inputBuf, obsState, map, num_edges>>
    /\ UNCHANGED driverVars

\* observer.reset_map()
ResetMap ==
    /\ obsState = "built"
    /\ nOps < MaxOps
    /\ map' = reset_map(map)
    /\ lastOp' = OpRecord("reset_map", 0, 0, TRUE, 0, map)
    /\ nOps' = nOps + 1
    /\ UNCHANGED <<inputBuf, obsState, num_edges>>
    /\ UNCHANGED driverVars

\* observer.to_vec()
ToVec ==
    /\ obsState = "built"
    /\ nOps < MaxOps
    /\ LET r == to_vec(variant, map, num_edges)
       IN lastOp' = [OpRecord("to_vec", 0, 0, r.ok, 0, map) EXCEPT !.vec = r.vec]
    /\ nOps' = nOps + 1
    /\ UNCHANGED <<inputBuf, obsState, map, num_edges>>
    /\ UNCHANGED driverVars

\* UniformDistribution::compute(state, testcase): the coverage count is that
\* of the observer in the state's metadata, when there is one.
Compute(has_observer, has_input, input_length) ==
    /\ obsState = "built"
    /\ nOps < MaxOps
    /\ LET r == compute_result(variant, has_observer, has_input,
                               count_bytes(map), input_length)
       IN lastOp' = [OpRecord("compute", input_length, 0, r.ok, r.score, map)
                        EXCEPT !.has_observer = has_observer,
                               !.has_input = has_input]
    /\ nOps' = nOps + 1
    /\ UNCHANGED <<inputBuf, obsState, map, num_edges>>
    /\ UNCHANGED driverVars

(***************************************************************************)
(* The corpus and the schedulers behind LibAflObject.                      *)
(***************************************************************************)
Threads == 1..NumThreads
Locks == {"scheduler", "state"}

\* Option<CorpusId>::None
NoId == -1

SchedulerKinds == {"UniformProbability", "Queue", "CoverageAccounting",
                   "IndexesLenTimeMinimizer"}

\* The adapter objects of the repository and the schedulers each can hold.
Configs == { <<"lib", k>> : k \in SchedulerKinds }
           \cup { <<"pss", "UniformProbability">>, <<"qs", "Queue">> }

Payloads == { [i \in 1..n |-> 97] : n \in 0..MaxPayloadLen }

\* The ids get_element is asked for: held by the corpus or never assigned.
ElementIds == 0..2

EmptyMeta == [present |-> FALSE, map |-> <<>>, total |-> 0]

\* ProbabilitySamplingScheduler::on_add: insert (id, score), add to the total.
ProbOnAdd(meta, id, score) ==
    [present |-> TRUE,
     map |-> [k \in (DOMAIN meta.map) \cup {id} |->
                 IF k = id THEN score ELSE meta.map[k]],
     total |-> meta.total + score]

\* ProbabilitySamplingScheduler::next: EmptyCorpus on an empty store or an
\* empty table; otherwise any id of the table may be drawn (all scores are
\* positive), and it becomes the corpus' current id.
ProbNext(meta, q, cur, count) ==
    IF count = 0 \/ ~meta.present \/ DOMAIN meta.map = {}
    THEN { [err |-> "EmptyCorpus", id |-> NoId, queue |-> q, current |-> cur] }
    ELSE { [err |-> "none", id |-> k, queue |-> q, current |-> k] :
             k \in DOMAIN meta.map }

\* QueueScheduler::next: the successor of the current id, the first id when
\* there is none; one more run in the cycle, one more cycle when the runs
\* reach the entry count.
QueueNext(q, cur, count) ==
    IF count = 0
    THEN [err |-> "EmptyCorpus", id |-> NoId, queue |-> q, current |-> cur]
    ELSE LET id == IF cur # NoId /\ cur + 1 < count THEN cur + 1 ELSE 0
             runs == q.runs_in_current_cycle + 1
         IN [err |-> "none", id |-> id,
             queue |-> IF runs >= count
                       THEN [queue_cycles |-> q.queue_cycles + 1,
                             runs_in_current_cycle |-> 0]
                       ELSE [q EXCEPT !.runs_in_current_cycle = runs],
             current |-> id]

\* The wrapping schedulers (coverage accounting, minimizer) ask the base
\* queue scheduler again while the entry drawn is not favored and a coin
\* says skip: k further draws after the first.
RECURSIVE QueueNextSkipping(_, _, _, _)
QueueNextSkipping(q, cur, count, k) ==
    LET o == QueueNext(q, cur, count)
    IN IF k = 0 \/ o.err # "none" THEN o
       ELSE QueueNextSkipping(o.queue, o.current, count, k - 1)

NextOutcomes_QueueSkips ==
    IF kind = "UniformProbability"
    THEN ProbNext(probMeta, queue, current, Len(corpus))
    ELSE { QueueNextSkipping(queue, current, Len(corpus), k) :
             k \in 0..MaxSkips }

\* scheduler.next(&mut *state) for the scheduler the object holds.
NextOutcomes ==
    IF kind = "UniformProbability"
    THEN ProbNext(probMeta, queue, current, Len(corpus))
    ELSE IF kind = "Queue"
    THEN { QueueNext(queue, current, Len(corpus)) }
    ELSE { QueueNextSkipping(queue, current, Len(corpus), k) :
             k \in 0..MaxSkips }

(***************************************************************************)
(* LibAflObject: add_input and suggest_next_input, one step per lock       *)
(* acquisition.  A panic unwinds and poisons every mutex whose guard the   *)
(* thread holds; lock().unwrap() panics on a poisoned mutex.               *)
(***************************************************************************)
Range(f) == { f[i] : i \in DOMAIN f }

Free(l) == \A t \in Threads : l \notin Range(held[t])

NoResult == [op |-> "none", outcome |-> "none", cause |-> "none",
             value |-> <<>>, id |-> NoId, count |-> 0]

Ended(op, outcome, cause, value, id, count) ==
    [op |-> op, outcome |-> outcome, cause |-> cause, value |-> value,
     id |-> id, count |-> count]

\* Unwinding out of a call of thread t: its guards are dropped while
\* panicking, which poisons their mutexes.
PoisonHeld(t) == [l \in Locks |-> poisoned[l] \/ l \in Range(held[t])]

\* add_input(input_data) is called.
CallAddInput(t, input_data) ==
    /\ pc[t] = "idle"
    /\ calls < budget
    /\ pc' = [pc EXCEPT ![t] = "add_lock_state"]
    /\ arg' = [arg EXCEPT ![t] = input_data]
    /\ calls' = calls + 1
    /\ UNCHANGED <<variant, kind, corpus, current, probMeta, queue, onAddLog,
                   held, poisoned, idx, result>>
    /\ UNCHANGED <<budget, schedLog>>
    /\ UNCHANGED mapVars

\* self.state.lock().unwrap(); state.corpus_mut().add(testcase)
AddLockState(t) ==
    /\ pc[t] = "add_lock_state"
    /\ Free("state")
    /\ IF poisoned["state"]
       THEN /\ result' = [result EXCEPT ![t] =
                  Ended("add_input", "panic", "PoisonError", <<>>, NoId,
                        Len(corpus))]
            /\ pc' = [pc EXCEPT ![t] = "idle"]
            /\ UNCHANGED <<corpus, idx, held>>
       ELSE /\ corpus' = Append(corpus, arg[t])
            /\ idx' = [idx EXCEPT ![t] = Len(corpus)]
            /\ IF variant = "lib"
               THEN /\ held' = [held EXCEPT ![t] = Append(@, "state")]
                    /\ pc' = [pc EXCEPT ![t] = "add_lock_scheduler"]
                    /\ UNCHANGED result
               ELSE \* pss.rs, qs.rs: the guard is dropped on return
                    /\ result' = [result EXCEPT ![t] =
                          Ended("add_input", "ok", "none", <<>>, Len(corpus),
                                Len(corpus) + 1)]
                    /\ pc' = [pc EXCEPT ![t] = "idle"]
                    /\ UNCHANGED held
    /\ UNCHANGED <<variant, kind, current, probMeta, queue, onAddLog,
                   poisoned, arg, calls>>
    /\ UNCHANGED <<budget, schedLog>>
    /\ UNCHANGED mapVars

\* lib.rs: match &mut *self.scheduler.lock().unwrap(), the state guard held.
AddLockScheduler(t) ==
    /\ pc[t] = "add_lock_scheduler"
    /\ Free("scheduler")
    /\ IF poisoned["scheduler"]
       THEN /\ result' = [result EXCEPT ![t] =
                  Ended("add_input", "panic", "PoisonError", <<>>, idx[t],
                        Len(corpus))]
            /\ poisoned' = PoisonHeld(t)
            /\ held' = [held EXCEPT ![t] = <<>>]
            /\ pc' = [pc EXCEPT ![t] = "idle"]
       ELSE /\ held' = [held EXCEPT ![t] = Append(@, "scheduler")]
            /\ pc' = [pc EXCEPT ![t] = "add_on_add"]
            /\ UNCHANGED <<result, poisoned>>
    /\ UNCHANGED <<variant, kind, corpus, current, probMeta, queue, onAddLog,
                   arg, idx, calls>>
    /\ UNCHANGED <<budget, schedLog>>
    /\ UNCHANGED mapVars

\* lib.rs: the match arms, then both guards are dropped and the call returns.
AddOnAdd(t) ==
    /\ pc[t] = "add_on_add"
    /\ IF kind = "UniformProbability"
       THEN /\ probMeta' = ProbOnAdd(probMeta, idx[t],
                  compute(obsState = "built", TRUE, count_bytes(map),
                          Len(corpus[idx[t] + 1])))
            /\ onAddLog' = onAddLog \cup {idx[t]}
       ELSE UNCHANGED <<probMeta, onAddLog>>
    /\ held' = [held EXCEPT ![t] = <<>>]
    /\ result' = [result EXCEPT ![t] =
          Ended("add_input", "ok", "none", <<>>, idx[t], Len(corpus))]
    /\ pc' = [pc EXCEPT ![t] = "idle"]
    /\ UNCHANGED <<variant, kind, corpus, current, queue, poisoned, arg, idx,
                   calls>>
    /\ UNCHANGED <<budget, schedLog>>
    /\ UNCHANGED mapVars

\* suggest_next_input() is called.
CallSuggestNextInput(t) ==
    /\ pc[t] = "idle"
    /\ calls < budget
    /\ pc' = [pc EXCEPT ![t] = "suggest_lock_scheduler"]
    /\ calls' = calls + 1
    /\ UNCHANGED <<variant, kind, corpus, current, probMeta, queue, onAddLog,
                   held, poisoned, arg, idx, result>>
    /\ UNCHANGED <<budget, schedLog>>
    /\ UNCHANGED mapVars

\* let mut scheduler = self.scheduler.lock().unwrap();
SuggestLockScheduler(t) ==
    /\ pc[t] = "suggest_lock_scheduler"
    /\ Free("scheduler")
    /\ IF poisoned["scheduler"]
       THEN /\ result' = [result EXCEPT ![t] =
                  Ended("suggest_next_input", "panic", "PoisonError", <<>>,
                        NoId, Len(corpus))]
            /\ pc' = [pc EXCEPT ![t] = "idle"]
            /\ UNCHANGED held
       ELSE /\ held' = [held EXCEPT ![t] = Append(@, "scheduler")]
            /\ pc' = [pc EXCEPT ![t] = "suggest_lock_state"]
            /\ UNCHANGED result
    /\ UNCHANGED <<variant, kind, corpus, current, probMeta, queue, onAddLog,
                   poisoned, arg, idx, calls>>
    /\ UNCHANGED <<budget, schedLog>>
    /\ UNCHANGED mapVars

\* let mut state = self.state.lock().unwrap(); the scheduler guard held.
SuggestLockState(t) ==
    /\ pc[t] = "suggest_lock_state"
    /\ Free("state")
    /\ IF poisoned["state"]
       THEN /\ result' = [result EXCEPT ![t] =
                  Ended("suggest_next_input", "panic", "PoisonError", <<>>,
                        NoId, Len(corpus))]
            /\ poisoned' = PoisonHeld(t)
            /\ held' = [held EXCEPT ![t] = <<>>]
            /\ pc' = [pc EXCEPT ![t] = "idle"]
       ELSE /\ held' = [held EXCEPT ![t] = Append(@, "state")]
            /\ pc' = [pc EXCEPT ![t] = "suggest_next"]
            /\ UNCHANGED <<result, poisoned>>
    /\ UNCHANGED <<variant, kind, corpus, current, probMeta, queue, onAddLog,
                   arg, idx, calls>>
    /\ UNCHANGED <<budget, schedLog>>
    /\ UNCHANGED mapVars

\* scheduler.next(&mut *state).expect(..), then the payload of the entry; an
\* Err makes expect panic with both guards held.
SuggestNext(t) ==
    /\ pc[t] = "suggest_next"
    /\ \E o \in NextOutcomes :
          IF o.err # "none"
          THEN /\ result' = [result EXCEPT ![t] =
                     Ended("suggest_next_input", "panic", o.err, <<>>, NoId,
                           Len(corpus))]
               /\ poisoned' = PoisonHeld(t)
               /\ UNCHANGED <<queue, current, schedLog>>
          ELSE /\ result' = [result EXCEPT ![t] =
                     Ended("suggest_next_input", "ok", "none",
                           corpus[o.id + 1], o.id, Len(corpus))]
               /\ queue' = o.queue
               /\ current' = o.current
               /\ schedLog' = Append(schedLog,
                     [id |-> o.id, count |-> Len(corpus),
                      cycles |-> o.queue.queue_cycles])
               /\ UNCHANGED poisoned
    /\ held' = [held EXCEPT ![t] = <<>>]
    /\ pc' = [pc EXCEPT ![t] = "idle"]
    /\ UNCHANGED <<variant, kind, corpus, probMeta, onAddLog, arg, idx, calls>>
    /\ UNCHANGED budget
    /\ UNCHANGED mapVars

(***************************************************************************)
(* LibAflObject: count, first_index, last_index and get_element.  Each     *)
(* takes the state lock alone and drops it on return, so each is one step. *)
(***************************************************************************)
\* Corpus::first and Corpus::last: None on an empty corpus.
first(c) == IF Len(c) = 0 THEN NoId ELSE 0

last(c) == IF Len(c) = 0 THEN NoId ELSE Len(c) - 1

\* Option::unwrap_or
unwrap_or(o, default) == IF o = NoId THEN default ELSE o

\* Corpus::get: Err(key_not_found) for an id the corpus does not hold.
corpus_get(c, id) ==
    IF id \in 0..(Len(c) - 1)
    THEN [err |-> "none", input |-> c[id + 1]]
    ELSE [err |-> "NotFound", input |-> <<>>]

\* What a method that takes the state lock alone returns: lock().unwrap()
\* panics on a poisoned mutex, otherwise the method ends with value and id.
StateLockResult(op, value, id) ==
    IF poisoned["state"]
    THEN Ended(op, "panic", "PoisonError", <<>>, NoId, Len(corpus))
    ELSE Ended(op, "ok", "none", value, id, Len(corpus))

\* count(): the number of entries is the count field of the result.
Count(t) ==
    /\ pc[t] = "idle"
    /\ calls < budget
    /\ Free("state")
    /\ result' = [result EXCEPT ![t] =
          StateLockResult("count", <<>>, NoId)]
    /\ calls' = calls + 1
    /\ UNCHANGED <<variant, kind, corpus, current, probMeta, queue, onAddLog,
                   pc, held, poisoned, arg, idx, budget, schedLog>>
    /\ UNCHANGED mapVars

\* first_index(): state.corpus().first().unwrap_or(CorpusId(0))
FirstIndex(t) ==
    /\ pc[t] = "idle"
    /\ calls < budget
    /\ Free("state")
    /\ result' = [result EXCEPT ![t] =
          StateLockResult("first_index", <<>>, unwrap_or(first(corpus), 0))]
    /\ calls' = calls + 1
    /\ UNCHANGED <<variant, kind, corpus, current, probMeta, queue, onAddLog,
                   pc, held, poisoned, arg, idx, budget, schedLog>>
    /\ UNCHANGED mapVars

\* last_index(): state.corpus().last().unwrap_or(CorpusId(0))
LastIndex(t) ==
    /\ pc[t] = "idle"
    /\ calls < budget
    /\ Free("state")
    /\ result' = [result EXCEPT ![t] =
          StateLockResult("last_index", <<>>, unwrap_or(last(corpus), 0))]
    /\ calls' = calls + 1
    /\ UNCHANGED <<variant, kind, corpus, current, probMeta, queue, onAddLog,
                   pc, held, poisoned, arg, idx, budget, schedLog>>
    /\ UNCHANGED mapVars

\* get_element(id): the bytes of the entry, Vec::new() on Err(_).
GetElement(t, id) ==
    /\ pc[t] = "idle"
    /\ calls < budget
    /\ Free("state")
    /\ result' = [result EXCEPT ![t] =
          StateLockResult("get_element",
                          IF corpus_get(corpus, id).err = "none"
                          THEN corpus_get(corpus, id).input
                          ELSE <<>>,
                          id)]
    /\ calls' = calls + 1
    /\ UNCHANGED <<variant, kind, corpus, current, probMeta, queue, onAddLog,
                   pc, held, poisoned, arg, idx, budget, schedLog>>
    /\ UNCHANGED mapVars

(***************************************************************************)
(* Specifications.                                                         *)
(***************************************************************************)
\* LibAflObject::new: an empty corpus, a fresh scheduler, both mutexes free.
DriverInit(cfg) ==
    /\ variant = cfg[1]
    /\ kind = cfg[2]
    /\ corpus = <<>>
    /\ current = NoId
    /\ probMeta = EmptyMeta
    /\ queue = [queue_cycles |-> 0, runs_in_current_cycle |-> 0]
    /\ onAddLog = {}
    /\ pc = [t \in Threads |-> "idle"]
    /\ held = [t \in Threads |-> <<>>]
    /\ poisoned = [l \in Locks |-> FALSE]
    /\ arg = [t \in Threads |-> <<>>]
    /\ idx = [t \in Threads |-> NoId]
    /\ result = [t \in Threads |-> NoResult]
    /\ calls = 0
    /\ schedLog = <<>>

\* The observer LibAflObject::new builds from the shared memory and stores
\* in the state's metadata.
ObserverInit(buffer) ==
    /\ inputBuf = buffer
    /\ obsState = "built"
    /\ map = buffer
    /\ num_edges = from_le_bytes(buffer)
    /\ lastOp = NoOp
    /\ nOps = 0

Init ==
    /\ \E cfg \in Configs : DriverInit(cfg)
    /\ budget = MaxCalls
    /\ ObserverInit(SampleBuffer)

Next ==
    \E t \in Threads :
        \/ \E input_data \in Payloads : CallAddInput(t, input_data)
        \/ AddLockState(t)
        \/ AddLockScheduler(t)
        \/ AddOnAdd(t)
        \/ CallSuggestNextInput(t)
        \/ SuggestLockScheduler(t)
        \/ SuggestLockState(t)
        \/ SuggestNext(t)
        \/ Count(t)
        \/ FirstIndex(t)
        \/ LastIndex(t)
        \/ \E id \in ElementIds : GetElement(t, id)

Spec == Init /\ [][Next]_vars

\* One driver thread calling every exported method.
InitSeq ==
    /\ \E cfg \in Configs : DriverInit(cfg)
    /\ budget = MaxSeqCalls
    /\ ObserverInit(SampleBuffer)

NextSeq ==
    \/ \E input_data \in Payloads : CallAddInput(1, input_data)
    \/ AddLockState(1)
    \/ AddLockScheduler(1)
    \/ AddOnAdd(1)
    \/ CallSuggestNextInput(1)
    \/ SuggestLockScheduler(1)
    \/ SuggestLockState(1)
    \/ SuggestNext(1)
    \/ Count(1)
    \/ FirstIndex(1)
    \/ LastIndex(1)
    \/ \E id \in ElementIds : GetElement(1, id)

SpecSeq == InitSeq /\ [][NextSeq]_vars

\* The sources that define a FuzzilliCoverageObserver: lib.rs (test_shmem.rs
\* has the same text) and pss.rs.
ObserverConfigs == { <<"lib", "UniformProbability">>,
                     <<"pss", "UniformProbability">> }

InitMap ==
    /\ \E cfg \in ObserverConfigs : DriverInit(cfg)
    /\ budget = MaxCalls
    /\ \E buffer \in Buffers :
          /\ inputBuf = buffer
          /\ obsState = "unbuilt"
          /\ map = <<>>
          /\ num_edges = 0
          /\ lastOp = NoOp
          /\ nOps = 0

NextMap ==
    \/ New
    \/ \E i \in EdgeIndices : Get(i)
    \/ \E i \in EdgeIndices : \E value \in BitValues : Set(i, value)
    \/ CountBytes
    \/ ResetMap
    \/ ToVec
    \/ \E has_observer \in BOOLEAN : \E has_input \in BOOLEAN :
          \E input_length \in InputLens :
             Compute(has_observer, has_input, input_length)

SpecMap == InitMap /\ [][NextMap]_vars

(***************************************************************************)
(* Properties.                                                             *)
(***************************************************************************)
CeilDiv8(n) == (n + 7) \div 8

\* C1: a thread that holds both the scheduler lock and the state lock took
\* the scheduler lock first and the state lock second.
C1_SchedulerLockFirst ==
    \A t \in Threads :
        Range(held[t]) = Locks => held[t] = <<"scheduler", "state">>

\* C2: no state has one thread holding the state lock and waiting for the
\* scheduler lock while another thread holds the scheduler lock and waits
\* for the state lock.
C2_NoLockCycle ==
    ~ \E t \in Threads : \E u \in Threads \ {t} :
          /\ held[t] = <<"state">>
          /\ pc[t] = "add_lock_scheduler"
          /\ held[u] = <<"scheduler">>
          /\ pc[u] = "suggest_lock_state"

\* C3: every add_input that returned has recorded its entry and has invoked
\* on_add of the scheduler for the new id.
C3_AddInvokesOnAdd ==
    \A t \in Threads :
        (result[t].op = "add_input" /\ result[t].outcome = "ok")
            => /\ result[t].id \in 0..(Len(corpus) - 1)
               /\ result[t].id \in onAddLog

\* C4: a suggest_next_input that asked the scheduler while the corpus held
\* zero entries ended with EmptyCorpus as a returned failure, not a panic.
C4_EmptyCorpusIsReturned ==
    \A t \in Threads :
        (/\ result[t].op = "suggest_next_input"
         /\ result[t].count = 0
         /\ result[t].cause # "PoisonError")
            => /\ result[t].cause = "EmptyCorpus"
               /\ result[t].outcome = "err"

\* C5: after suggest_next_input failed on an empty corpus both locks are
\* still usable, and no add_input fails.
C5_EmptyCorpusRecoverable ==
    /\ \A t \in Threads :
          (result[t].cause = "EmptyCorpus" /\ result[t].count = 0)
              => \A l \in Locks : ~poisoned[l]
    /\ \A t \in Threads :
          result[t].op = "add_input" => result[t].outcome = "ok"

\* C6: every buffer the constructor accepts is at least
\* 4 + ceil(num_edges / 8) bytes long.
C6_AcceptedBufferHoldsAllEdges ==
    obsState = "built"
        => /\ Len(inputBuf) >= 4
           /\ Len(inputBuf) >= 4 + CeilDiv8(from_le_bytes(inputBuf))

\* C7: on a buffer that holds all its edges, count_bytes returns the number
\* of set bits of the bytes at positions [4, 4 + ceil(num_edges / 8)).
C7_CountIsOverBitRegion ==
    (/\ lastOp.op = "count_bytes"
     /\ Len(lastOp.pre) >= 4 + CeilDiv8(num_edges))
        => lastOp.ret = SumOnes(lastOp.pre, 5, 4 + CeilDiv8(num_edges))

\* C8: after reset_map every edge reads 0, the count is 0, and the four
\* header bytes are what they were.
C8_ResetKeepsHeader ==
    (lastOp.op = "reset_map" /\ Len(map) >= 4 + CeilDiv8(num_edges))
        => /\ \A i \in EdgeIndices : get(map, num_edges, i).bit = 0
           /\ count_bytes(map) = 0
           /\ SubSeq(map, 1, 4) = SubSeq(lastOp.pre, 1, 4)

\* C9: get of an index >= num_edges returns 0 without failing, and set of
\* such an index, with either bit value, leaves the whole buffer as it was.
C9_OutOfRangeIsNoOp ==
    /\ (lastOp.op = "get" /\ lastOp.idx >= num_edges)
           => (lastOp.ok /\ lastOp.ret = 0)
    /\ (lastOp.op = "set" /\ lastOp.idx >= num_edges)
           => (lastOp.ok /\ map = lastOp.pre)

\* C9 witness: a second operation in a row was set(i, 1) with i >= num_edges,
\* on a map of at least one edge that does have a byte at 4 + i / 8.
C9_Witness ==
    /\ num_edges > 0
    /\ lastOp.op = "set"
    /\ lastOp.value = 1
    /\ lastOp.idx >= num_edges
    /\ 4 + (lastOp.idx \div 8) < Len(map)
    /\ nOps >= 2

\* C10: after set(i, b) with i < num_edges, get(i) returns b.
C10_RoundTrip ==
    (lastOp.op = "set" /\ lastOp.idx < num_edges)
        => /\ lastOp.ok
           /\ get(map, num_edges, lastOp.idx)
                  = [ok |-> TRUE, bit |-> lastOp.value]

\* C11: get(i) with i < num_edges returns bit i mod 8, counted from the least
\* significant bit, of the byte at index 4 + i / 8 of the buffer.
C11_GetReadsLsbFirstBit ==
    (lastOp.op = "get" /\ lastOp.idx < num_edges)
        => /\ lastOp.ok
           /\ 4 + (lastOp.idx \div 8) < Len(lastOp.pre)
           /\ LET byte == lastOp.pre[4 + (lastOp.idx \div 8) + 1]
                  k == lastOp.idx % 8
              IN lastOp.ret = IF byte % (2 * Pow2(k)) >= Pow2(k) THEN 1 ELSE 0

\* C12: to_vec returns exactly num_edges elements, the element at position i
\* being get(i).
C12_ToVecIsOneBitPerEdge ==
    lastOp.op = "to_vec"
        => /\ lastOp.ok
           /\ Len(lastOp.vec) = num_edges
           /\ \A i \in 0..(num_edges - 1) :
                 /\ get(lastOp.pre, num_edges, i).ok
                 /\ lastOp.vec[i + 1] = get(lastOp.pre, num_edges, i).bit

\* C13: with a coverage map that holds all its edges and an input, compute
\* returns max(1.0, count_set * 10.0 - length * 0.1), count_set being the
\* number of set bits of the bytes at [4, 4 + ceil(num_edges / 8)); the score
\* is at least 1.0, and count_set = 4 with lengths 1, 2, 3 scores 39.9, 39.8,
\* 39.7.
C13_ScoreFormula ==
    (/\ lastOp.op = "compute"
     /\ lastOp.has_observer
     /\ lastOp.has_input
     /\ Len(lastOp.pre) >= 4 + CeilDiv8(num_edges))
        => LET count_set == SumOnes(lastOp.pre, 5, 4 + CeilDiv8(num_edges))
               raw == (count_set * 1000) - (lastOp.idx * 10)
           IN /\ lastOp.ok
              /\ lastOp.ret >= 100
              /\ lastOp.ret = IF raw > 100 THEN raw ELSE 100
              /\ (count_set = 4 /\ lastOp.idx = 1) => lastOp.ret = 3990
              /\ (count_set = 4 /\ lastOp.idx = 2) => lastOp.ret = 3980
              /\ (count_set = 4 /\ lastOp.idx = 3) => lastOp.ret = 3970

\* C14: without a coverage map in the state, compute returns Ok(0.25).
C14_FallbackScore ==
    (lastOp.op = "compute" /\ ~lastOp.has_observer)
        => (lastOp.ok /\ lastOp.ret = 25)

\* C19: on a buffer that new accepted, get(i) and set(i, b) with
\* i < num_edges, and to_vec(), index only bytes inside the buffer: none of
\* them fails with an index out of bounds.
C19_AccessesInsideBuffer ==
    (\/ lastOp.op \in {"get", "set"} /\ lastOp.idx < num_edges
     \/ lastOp.op = "to_vec")
        => lastOp.ok

\* C16: under the weighted-sampling scheduler, whenever no call is in
\* progress every id of the corpus store has an entry in the probability
\* table, and an id returned by next() is in the table and in the store.
C16_TableCoversStore ==
    kind = "UniformProbability"
        => /\ (\A t \in Threads : pc[t] = "idle")
                 => \A id \in 0..(Len(corpus) - 1) : id \in DOMAIN probMeta.map
           /\ \A t \in Threads :
                 (/\ result[t].op = "suggest_next_input"
                  /\ result[t].outcome = "ok")
                     => /\ result[t].id \in DOMAIN probMeta.map
                        /\ result[t].id \in 0..(Len(corpus) - 1)

\* C17: first_index and last_index on an empty corpus store return none, a
\* result that is not an id a non-empty store can return.
C17_EmptyStoreHasNoFirstLast ==
    \A t \in Threads :
        (/\ result[t].op \in {"first_index", "last_index"}
         /\ result[t].outcome = "ok"
         /\ result[t].count = 0)
            => result[t].id = NoId

\* C18: get_element of an id the store never assigned fails with NotFound,
\* which no lookup of an entry with an empty payload does.
C18_UnknownIdIsNotFound ==
    \A t \in Threads :
        (/\ result[t].op = "get_element"
         /\ result[t].cause # "PoisonError"
         /\ result[t].id \notin 0..(result[t].count - 1))
            => /\ result[t].outcome = "err"
               /\ result[t].cause = "NotFound"

\* C15: Queue scheduler, one caller: when every next() so far ran over the
\* same N >= 1 entries, starting with no current id, the k-th call returned
\* id (k - 1) mod N (every id once per N calls, ascending, wrapping to the
\* first), and the cycle count after it is floor(k / N).
C15_QueueVisitsEveryIdPerCycle ==
    (/\ kind = "Queue"
     /\ \A k \in DOMAIN schedLog : schedLog[k].count = Len(corpus))
        => \A k \in DOMAIN schedLog :
              /\ Len(corpus) >= 1
              /\ schedLog[k].id = (k - 1) % Len(corpus)
              /\ schedLog[k].cycles = k \div Len(corpus)

\* C15 witness: over two entries, three next() calls have returned.
C15_Witness ==
    /\ kind = "Queue"
    /\ Len(corpus) = 2
    /\ Len(schedLog) = 3
    /\ \A k \in DOMAIN schedLog : schedLog[k].count = 2
    /\ schedLog[3].id = 0
    /\ schedLog[3].cycles = 1

====
